---- MODULE Spec2Model ----
(***************************************************************************)
(* horse-npc: the conversation store (src/db.rs), the mention table and    *)
(* its codec, and the reply pipeline of Handler::message (src/main.rs).    *)
(*                                                                         *)
(* A text is a sequence of symbols.  A symbol is a one-character string or *)
(* a whole mention token such as "<@1>".  A display name is the text       *)
(* <<"@", n>> that format!("@{}", nick) builds.                            *)
(***************************************************************************)
EXTENDS Integers, Sequences, FiniteSets, TLC

\* ------------------------------------------------------------- bounds
\* Gateway events delivered in one run.
MaxEvents == 2
\* Candidates in one Completion Service response.
MaxChoices == 2
\* The same, when two instances run at once.
MaxBusyChoices == 1

\* ------------------------------------------------------------- universe
\* Pipeline instances: serenity handles each inbound event on its own.
Procs == {"A", "B"}
\* Conversation names built by current_conversation.
ChannelNames == {"#general", "bob"}
\* The names that stand for a private channel (the counterpart's name).
PrivateNames == {"bob"}
\* Users that can be mentioned or write a message.
Users == {1, 2}
\* Nick or user names the gateway can report.
Nicks == {"a", "A"}
\* Raw inbound texts.
EventContents == { <<"<@1>", "<@2>">>, <<"@", "a", "<@2>">> }
\* Channels and texts of the events when two instances run at once.
BusyChannels == ChannelNames
BusyContents == { <<"<@2>", "h">> }
\* Rows of a history table found on disk.
MaxStoredRows == 3
\* Calls made on one connection of schema.rs.
MaxCalls == 3
\* Texts an assistant candidate of the Completion Service can hold.
ReplyContents == { <<"y">>, <<"@", "a", "y", "@", "A">> }
BusyReplyContents == { <<"y">> }

NoText == <<>>

Min(S) == CHOOSE x \in S : \A y \in S : x <= y
Max(S) == CHOOSE x \in S : \A y \in S : x >= y

\* ------------------------------------------------------------- text helpers
\* format!("<@{}>", id)
Mention(id) == CASE id = 1 -> "<@1>" [] id = 2 -> "<@2>" [] OTHER -> "<@0>"

\* The regex <@(\d+)> matches the symbol.
IsMention(s) == s \in {"<@1>", "<@2>", "<@0>"}

\* caps.get(1) parsed as u64
UserIdOf(s) == CASE s = "<@1>" -> 1 [] s = "<@2>" -> 2 [] OTHER -> 0

\* format!("@{}", nick)
Nickname(n) == <<"@", n>>

\* str::replace(from, to): every occurrence of the symbol `from` becomes `to`.
RECURSIVE Replace(_, _, _)
Replace(t, from, to) ==
    IF t = <<>> THEN <<>>
    ELSE (IF Head(t) = from THEN to ELSE <<Head(t)>>) \o Replace(Tail(t), from, to)

\* message.mentions: the distinct users the gateway found in the text, in order.
RECURSIVE MentionsOf(_)
MentionsOf(t) ==
    IF t = <<>> THEN <<>>
    ELSE LET rest == MentionsOf(Tail(t))
         IN  IF IsMention(Head(t))
             THEN <<UserIdOf(Head(t))>> \o SelectSeq(rest, LAMBDA u : u # UserIdOf(Head(t)))
             ELSE rest

\* ------------------------------------------------------------- BiMap<String, String>
\* The table is a set of pairs [l |-> token, r |-> display name].
Lefts(m) == {e.l : e \in m}
Rights(m) == {e.r : e \in m}
contains_left(m, l) == l \in Lefts(m)
get_by_left(m, l) == (CHOOSE e \in m : e.l = l).r
get_by_right(m, r) == (CHOOSE e \in m : e.r = r).l

\* BiMap::insert: pairs sharing the left or the right value are overwritten.
BiMapInsert_KeepOld(m, l, r) ==
    IF l \in Lefts(m) \/ r \in Rights(m) THEN m ELSE m \cup {[l |-> l, r |-> r]}
BiMapInsert(m, l, r) ==
    {e \in m : e.l # l /\ e.r # r} \cup {[l |-> l, r |-> r]}

\* ------------------------------------------------------------- Role
\* impl From<Role> for u8
RoleToU8_Swapped(role) ==
    CASE role = "System" -> 0 [] role = "User" -> 2 [] role = "Assistant" -> 1
RoleToU8(role) ==
    CASE role = "System" -> 0 [] role = "User" -> 1 [] role = "Assistant" -> 2

\* impl TryFrom<u8> for Role
RoleFromU8_Lenient(value) ==
    CASE value = 0 -> [ok |-> TRUE, role |-> "System"]
      [] value = 1 -> [ok |-> TRUE, role |-> "User"]
      [] value = 2 -> [ok |-> TRUE, role |-> "Assistant"]
      [] OTHER -> [ok |-> TRUE, role |-> "System"]
RoleFromU8(value) ==
    CASE value = 0 -> [ok |-> TRUE, role |-> "System"]
      [] value = 1 -> [ok |-> TRUE, role |-> "User"]
      [] value = 2 -> [ok |-> TRUE, role |-> "Assistant"]
      [] OTHER -> [ok |-> FALSE, role |-> "Invalid role"]

\* impl From<Role> for async_openai::types::Role (db.rs)
RoleToService(role) ==
    CASE role = "System" -> "system" [] role = "User" -> "user"
      [] role = "Assistant" -> "assistant"

\* schema/model.rs: impl From<Role> for async_openai::types::Role
ModelRoleToService(role) ==
    CASE role = "System" -> "system" [] role = "User" -> "user"
      [] role = "Assistant" -> "assistant" [] role = "Function" -> "function"

\* schema/model.rs: impl From<async_openai::types::Role> for Role
ModelRoleFromService_FunctionAsAssistant(svc) ==
    CASE svc = "system" -> "System" [] svc = "user" -> "User"
      [] svc = "assistant" -> "Assistant" [] svc = "function" -> "Assistant"
ModelRoleFromService(svc) ==
    CASE svc = "system" -> "System" [] svc = "user" -> "User"
      [] svc = "assistant" -> "Assistant" [] svc = "function" -> "Function"

\* ------------------------------------------------------------- the store
\* The id the storage engine gives a row inserted without one: one more than
\* the largest id of the table (schema.sql declares the id columns).
NextRowId(tbl) == IF tbl = {} THEN 1 ELSE Max({r.id : r \in tbl}) + 1

\* INSERT INTO conversation (name) VALUES (?1) ON CONFLICT (name) DO NOTHING
InsertConversation_Replace(tbl, name) ==
    {r \in tbl : r.name # name} \cup {[id |-> NextRowId(tbl), name |-> name]}
InsertConversation(tbl, name) ==
    IF \E r \in tbl : r.name = name THEN tbl
    ELSE tbl \cup {[id |-> NextRowId(tbl), name |-> name]}

\* SELECT id FROM conversation WHERE name = ?1
SelectConversation_NoWhere(tbl, name) == {r.id : r \in tbl}
SelectConversation(tbl, name) == {r.id : r \in {q \in tbl : q.name = name}}

\* Schema::find_conversation: the upsert, the lookup, rows.next(), rowid > 0.
find_conversation(tbl, name) ==
    LET inserted == InsertConversation(tbl, name)
        rows == SelectConversation(inserted, name)
        rowid == IF rows = {} THEN 0 ELSE Min(rows)
    IN  [tbl |-> inserted, ok |-> rows # {} /\ rowid > 0, id |-> rowid]

\* Schema::new_conversation, which current_conversation calls: the
\* find_or_create of the store.
new_conversation(tbl, name) == find_conversation(tbl, name)

\* INSERT INTO history (conversation, role, content) VALUES (?1, ?2, ?3)
\* `turn` is a history variable: the event whose pipeline wrote the row.
InsertHistory_CallerId(tbl, conversation, role, content, turn) ==
    tbl \cup {[id |-> turn, conversation |-> conversation,
               role |-> RoleToU8(role), content |-> content, turn |-> turn]}
InsertHistory(tbl, conversation, role, content, turn) ==
    tbl \cup {[id |-> NextRowId(tbl), conversation |-> conversation,
               role |-> RoleToU8(role), content |-> content, turn |-> turn]}

\* HISTORY_SQL: the rows of the conversation, ORDER BY id DESC.
RECURSIVE OrderByIdDesc(_)
OrderByIdDesc(rows) ==
    IF rows = {} THEN <<>>
    ELSE LET top == CHOOSE r \in rows : \A q \in rows : q.id <= r.id
         IN  <<top>> \o OrderByIdDesc(rows \ {top})
HistoryQuery_OtherConversations(tbl, conversation) ==
    OrderByIdDesc({r \in tbl : r.conversation # conversation})
HistoryQuery(tbl, conversation) ==
    OrderByIdDesc({r \in tbl : r.conversation = conversation})

\* The row closure of history: Role::try_from on the stored role.
RowToMessage(row) ==
    [id |-> row.id, conversation |-> row.conversation,
     role |-> RoleFromU8(row.role).role, content |-> row.content, turn |-> row.turn]

\* messages.sort_by(|a, b| a.id.cmp(&b.id)): a stable insertion into place.
RECURSIVE SortById(_)
SortById_Unsorted(messages) == messages
SortById(messages) ==
    IF messages = <<>> THEN <<>>
    ELSE LET x == Head(messages)
             rest == SortById(Tail(messages))
         IN  SelectSeq(rest, LAMBDA m : m.id < x.id) \o <<x>>
             \o SelectSeq(rest, LAMBDA m : m.id >= x.id)

\* Schema::history
history_of(tbl, conversation) ==
    LET rows == HistoryQuery(tbl, conversation)
        bad == \E n \in 1..Len(rows) : ~RoleFromU8(rows[n].role).ok
    IN  [ok |-> ~bad,
         messages |-> IF bad THEN <<>>
                      ELSE SortById([n \in 1..Len(rows) |-> RowToMessage(rows[n])])]

\* ------------------------------------------------------------- the mention codec
\* re.replace_all of decode_user_mentions_from_str: every token becomes the
\* cached display name of its normal form, or the normal form itself.
RECURSIVE ReplaceAllMentions(_, _)
ReplaceAllMentions(m, t) ==
    IF t = <<>> THEN <<>>
    ELSE LET s == Head(t)
             mention == Mention(UserIdOf(s))
             out == IF ~IsMention(s) THEN <<s>>
                    ELSE IF contains_left(m, mention) THEN get_by_left(m, mention)
                    ELSE <<mention>>
         IN  out \o ReplaceAllMentions(m, Tail(t))

\* The orders in which mentions.right_values() can yield the display names
\* (the iteration order of a hash map is not fixed).
RightValueOrders(m) ==
    LET n == Cardinality(Rights(m))
    IN  {f \in [1..n -> Rights(m)] : \A a, b \in 1..n : a # b => f[a] # f[b]}

\* The pattern matches at the head of t with the alternative `name`.
MatchAt(t, name) == Len(name) <= Len(t) /\ SubSeq(t, 1, Len(name)) = name

\* re.replace_all of encode_user_mentions.  The pattern is the alternation of the
\* escaped display names in the order `order`; the regex takes the leftmost
\* match and, there, the first alternative that matches.  The match is replaced
\* by get_by_right.  With an empty table the pattern is empty and the text is
\* left as it is.
RECURSIVE EncodeText(_, _, _)
EncodeText_StopAfterFirst(m, order, t) ==
    LET at == {k \in 1..Len(t) :
                 \E n \in 1..Len(order) : MatchAt(SubSeq(t, k, Len(t)), order[n])}
    IN  IF at = {} THEN t
        ELSE LET k == Min(at)
                 name == order[Min({n \in 1..Len(order) :
                                      MatchAt(SubSeq(t, k, Len(t)), order[n])})]
             IN  SubSeq(t, 1, k - 1) \o <<get_by_right(m, name)>>
                 \o SubSeq(t, k + Len(name), Len(t))
EncodeText(m, order, t) ==
    IF t = <<>> THEN <<>>
    ELSE LET hits == {n \in 1..Len(order) : MatchAt(t, order[n])}
         IN  IF hits = {} THEN <<Head(t)>> \o EncodeText(m, order, Tail(t))
             ELSE LET name == order[Min(hits)]
                  IN  <<get_by_right(m, name)>>
                      \o EncodeText(m, order, SubSeq(t, Len(name) + 1, Len(t)))

\* ------------------------------------------------------------- deflection
\* moderation_responses.txt, line by line: a line of plain words, and a line
\* in which a word follows an "@".
HORSE_MODERATION_RESPONSES == << <<"n">>, <<"n", "@", "a">> >>

\* random_moderation_response: the lines it can draw.
random_moderation_response ==
    IF Len(HORSE_MODERATION_RESPONSES) = 0 THEN { <<"C">> }
    ELSE {HORSE_MODERATION_RESPONSES[n] : n \in 1..Len(HORSE_MODERATION_RESPONSES)}

\* ------------------------------------------------------------- the services
\* A candidate of a Completion Service response: an assistant text, or a
\* candidate of another role.
Choice(contents) == [role : {"assistant"}, content : contents]
          \cup {[role |-> "user", content |-> <<"u">>]}

\* context.cache.current_user_id(): the bot is user 1.
current_user_id == 1
\* Users that write to the bot.
Authors == {2}

\* The prompt text of current_system_prompt before its mentions are decoded:
\* "Your name is <@my_id> ... You are talking to <@user.id> ...".
\* In a private channel: ".. in a private channel with <@p.recipient.id>", the
\* recipient being the author.
RawSystemPrompt(channel, author) ==
    <<Mention(current_user_id), "t", Mention(author)>>
    \o (IF channel \in PrivateNames THEN <<"p", Mention(author)>> ELSE <<>>)

\* ------------------------------------------------------------- state
VARIABLES
    conversation,   \* table conversation: rows [id, name]
    history,        \* table history: rows [id, conversation, role, content, turn]
    mentions,       \* Handler.mentions: the BiMap behind the mutex
    lock,           \* the holder of the mentions mutex, or "none"
    nick,           \* the gateway's directory: user id -> nick
    events,         \* events delivered so far
    st,             \* per pipeline instance: its position and locals
    found,          \* history variable: every [name, id] find_conversation returned
    log,            \* history variable: the appends, in the order they were made
    cached,         \* history variable: every [mention, turn] a decode inserted
    probe,          \* a value carried through the Role conversions
    conn            \* schema.rs: the connection of its Schema

vars == <<conversation, history, mentions, lock, nick, events, st, found, log, cached, probe, conn>>

NoReply == [some |-> FALSE, text |-> NoText]
NoResult == [kind |-> "none", text |-> NoText]
NoEvent == [channel |-> "", content |-> NoText, mentions |-> <<>>, author |-> 0]

\* No conversion is being followed.
NoProbe == [kind |-> "none", step |-> 0, role0 |-> "", u80 |-> 0, svc0 |-> "",
            role |-> "", u8 |-> 0, svc |-> "", ok |-> TRUE]

\* schema.rs: a connection just opened on an empty database.  The binary
\* built from main.rs opens none.
NoConn == [personalities |-> {}, history |-> {}, last_insert_rowid |-> 0]

\* The locals of an instance that handles no event yet.
Fresh ==
    [pc |-> "idle", ev |-> NoEvent, turn |-> 0, conversation |-> 0,
     content |-> NoText, system_prompt |-> NoText, i |-> 0,
     flag_in |-> "none", flag_out |-> "none", chat |-> 0, request |-> <<>>,
     reply |-> NoReply, result |-> NoResult, said |-> NoResult]

Init ==
    /\ conversation = {}
    /\ history = {}
    /\ mentions = {}
    /\ lock = "none"
    /\ nick \in {f \in [Users -> Nicks] : f[current_user_id] = "a"}
    /\ events = 0
    /\ st = [p \in Procs |-> Fresh]
    /\ found = {}
    /\ log = <<>>
    /\ cached = {}
    /\ probe = NoProbe
    /\ conn = NoConn

\* The instance p is at `at`.
At(p, at) == st[p].pc = at

\* The event of s is over: its locals are dropped.  What stays records how it
\* ended.
Ended(s, pc, kind) ==
    [Fresh EXCEPT !.pc = pc, !.turn = s.turn, !.said = [kind |-> kind, text |-> NoText]]

\* An .expect() of Handler::message fails: the handling of this event ends, the
\* process goes on.
Panicked(s) == Ended(s, "failed", "panic")

\* Handler::reply returned Err: the .expect("Failed to reply") fails.
ReplyErr_AsText(s, why) ==
    [s EXCEPT !.pc = "encode", !.result = [kind |-> "ok", text |-> <<why>>]]
ReplyErr(s, why) ==
    [Panicked(s) EXCEPT !.result = [kind |-> "err", text |-> <<why>>]]

\* Handler::reply returned Ok(text): message() goes on to encode it.
ReplyOk(s, text) == [s EXCEPT !.pc = "encode", !.result = [kind |-> "ok", text |-> text]]

\* ------------------------------------------------------------- Handler::message
\* The instance has no event in hand.
Terminal(p) == st[p].pc \in {"idle", "done", "failed"}

\* The instance that takes the next event: the first one that is free.
Rank(p) == IF p = "A" THEN 1 ELSE 2
Free(p) == Terminal(p) /\ \A q \in Procs : Terminal(q) => Rank(p) <= Rank(q)

\* An event of a bot author, or one that neither mentions the bot nor is a
\* private message: message() returns at once.
MessageIgnored(p) ==
    /\ Free(p)
    /\ events < MaxEvents
    /\ events' = events + 1
    /\ st' = [st EXCEPT ![p] = [Fresh EXCEPT !.pc = "done", !.turn = events + 1]]
    /\ UNCHANGED <<conversation, history, mentions, lock, nick, found, log, cached, probe, conn>>

\* An event the bot answers, on one of `channels` and with one of `contents`
\* as its text: the pipeline starts.
MessageStart(p, channels, contents) ==
    /\ Free(p)
    /\ events < MaxEvents
    /\ events' = events + 1
    /\ \E channel \in channels, content \in contents, author \in Authors :
           st' = [st EXCEPT ![p] =
                    [Fresh EXCEPT !.pc = "identify", !.turn = events + 1,
                                  !.ev = [channel |-> channel, content |-> content,
                                          mentions |-> MentionsOf(content),
                                          author |-> author]]]
    /\ UNCHANGED <<conversation, history, mentions, lock, nick, found, log, cached, probe, conn>>

\* current_conversation, then start_typing.  The gateway lookup or the store
\* can fail (.expect("Failed to get conversation")); when start_typing fails the
\* event is dropped without a word.
Identify(p) ==
    /\ At(p, "identify")
    /\ \E outcome \in {"gateway_error", "store_error", "typing_error", "ok"} :
         LET r == new_conversation(conversation, st[p].ev.channel)
             stored == outcome \in {"typing_error", "ok"} /\ r.ok
         IN  /\ conversation' = IF stored THEN r.tbl ELSE conversation
             /\ found' = IF stored
                         THEN found \cup {[name |-> st[p].ev.channel, id |-> r.id]}
                         ELSE found
             /\ st' = [st EXCEPT ![p] =
                         IF ~stored THEN Panicked(@)
                         ELSE IF outcome = "typing_error"
                         THEN Ended(@, "done", "none")
                         ELSE [@ EXCEPT !.pc = "decode", !.conversation = r.id]]
    /\ UNCHANGED <<history, mentions, lock, nick, events, log, cached, probe, conn>>

\* ------------------------------------------------------------- decode_user_mentions
\* self.mentions.lock().await completes when nobody holds the mutex.
CanLock_NoMutex(holder) == TRUE
CanLock(holder) == holder = "none"

\* The MutexGuard `mentions` goes out of scope, at the return of the function
\* or at a `?` that leaves it: the mutex is free again.
DropGuard_Kept(holder) == holder
DropGuard(holder) == "none"

\* let mut content = message.content.clone(); let mut mentions = lock().await
DecodeLock(p) ==
    /\ At(p, "decode")
    /\ CanLock(lock)
    /\ lock' = p
    /\ st' = [st EXCEPT ![p] = [@ EXCEPT !.pc = "decode_loop", !.i = 1,
                                         !.content = st[p].ev.content]]
    /\ UNCHANGED <<conversation, history, mentions, nick, events, found, log, cached, probe, conn>>

\* One turn of the loop up to the cache check: mention.id.to_user(..).await?,
\* then the cached name is used, or the member lookup is awaited.
DecodeToUser(p) ==
    /\ At(p, "decode_loop")
    /\ st[p].i <= Len(st[p].ev.mentions)
    /\ \E ok \in BOOLEAN :
         LET mention == Mention(st[p].ev.mentions[st[p].i])
         IN  IF ~ok
             THEN /\ st' = [st EXCEPT ![p] = Panicked(@)]
                  /\ lock' = DropGuard(lock)
             ELSE /\ st' = [st EXCEPT ![p] =
                              IF contains_left(mentions, mention)
                              THEN [@ EXCEPT !.content =
                                        Replace(@, mention, get_by_left(mentions, mention)),
                                             !.i = @ + 1]
                              ELSE [@ EXCEPT !.pc = "decode_member"]]
                  /\ lock' = lock
    /\ UNCHANGED <<conversation, history, mentions, nick, events, found, log, cached, probe, conn>>

\* The else branch: guild, guild.member(..).await?, the nickname, the replace
\* and mentions.insert.
DecodeMember(p) ==
    /\ At(p, "decode_member")
    /\ \E ok \in BOOLEAN :
         LET mention == Mention(st[p].ev.mentions[st[p].i])
             nickname == Nickname(nick[st[p].ev.mentions[st[p].i]])
         IN  IF ~ok
             THEN /\ st' = [st EXCEPT ![p] = Panicked(@)]
                  /\ lock' = DropGuard(lock)
                  /\ mentions' = mentions
                  /\ cached' = cached
             ELSE /\ st' = [st EXCEPT ![p] =
                              [@ EXCEPT !.pc = "decode_loop",
                                        !.content = Replace(@, mention, nickname),
                                        !.i = @ + 1]]
                  /\ lock' = lock
                  /\ mentions' = BiMapInsert(mentions, mention, nickname)
                  /\ cached' = cached \cup {[mention |-> mention, turn |-> st[p].turn]}
    /\ UNCHANGED <<conversation, history, nick, events, found, log, probe, conn>>

\* Ok(content): the guard is dropped.
DecodeReturn(p) ==
    /\ At(p, "decode_loop")
    /\ st[p].i > Len(st[p].ev.mentions)
    /\ lock' = DropGuard(lock)
    /\ st' = [st EXCEPT ![p] = [@ EXCEPT !.pc = "prompt", !.i = 0]]
    /\ UNCHANGED <<conversation, history, mentions, nick, events, found, log, cached, probe, conn>>

\* ------------------------------------------------------------- current_system_prompt
\* The tokens re.captures_iter visits in the text.
Captures(t) == SelectSeq(t, IsMention)

\* The gateway lookups of current_system_prompt (to_user, to_channel), the
\* prompt text, then decode_user_mentions_from_str takes the mutex.
PromptLock(p) ==
    /\ At(p, "prompt")
    /\ \E ok \in BOOLEAN :
         IF ~ok
         THEN /\ st' = [st EXCEPT ![p] = Panicked(@)]
              /\ lock' = lock
         ELSE /\ CanLock(lock)
              /\ lock' = p
              /\ st' = [st EXCEPT ![p] =
                          [@ EXCEPT !.pc = "prompt_loop", !.i = 1,
                                    !.system_prompt = RawSystemPrompt(st[p].ev.channel, st[p].ev.author)]]
    /\ UNCHANGED <<conversation, history, mentions, nick, events, found, log, cached, probe, conn>>

\* One capture of the first loop up to the cache check: a cached token is
\* skipped, another one goes to the gateway.
PromptScan(p) ==
    /\ At(p, "prompt_loop")
    /\ st[p].i <= Len(Captures(st[p].system_prompt))
    /\ LET mention == Mention(UserIdOf(Captures(st[p].system_prompt)[st[p].i]))
       IN  st' = [st EXCEPT ![p] =
                    IF contains_left(mentions, mention)
                    THEN [@ EXCEPT !.i = @ + 1]
                    ELSE [@ EXCEPT !.pc = "prompt_lookup"]]
    /\ UNCHANGED <<conversation, history, mentions, lock, nick, events, found, log, cached, probe, conn>>

\* get_user(..).await?, guild, guild.member(..).await?, mentions.insert.
PromptLookup(p) ==
    /\ At(p, "prompt_lookup")
    /\ \E ok \in BOOLEAN :
         LET user_id == UserIdOf(Captures(st[p].system_prompt)[st[p].i])
         IN  IF ~ok
             THEN /\ st' = [st EXCEPT ![p] = Panicked(@)]
                  /\ lock' = DropGuard(lock)
                  /\ mentions' = mentions
                  /\ cached' = cached
             ELSE /\ st' = [st EXCEPT ![p] = [@ EXCEPT !.pc = "prompt_loop", !.i = @ + 1]]
                  /\ lock' = lock
                  /\ mentions' = BiMapInsert(mentions, Mention(user_id), Nickname(nick[user_id]))
                  /\ cached' = cached \cup {[mention |-> Mention(user_id),
                                              turn |-> st[p].turn]}
    /\ UNCHANGED <<conversation, history, nick, events, found, log, probe, conn>>

\* re.replace_all, Ok(result): the guard is dropped.
PromptReplace(p) ==
    /\ At(p, "prompt_loop")
    /\ st[p].i > Len(Captures(st[p].system_prompt))
    /\ lock' = DropGuard(lock)
    /\ st' = [st EXCEPT ![p] =
                [@ EXCEPT !.pc = "moderate_in", !.i = 0,
                          !.system_prompt = ReplaceAllMentions(mentions, @)]]
    /\ UNCHANGED <<conversation, history, mentions, nick, events, found, log, cached, probe, conn>>

\* ------------------------------------------------------------- Handler::reply
\* if self.must_moderate(&content).await? { return Ok(random_moderation_response()) }
ModeratedInput_Ignored(s, flagged, phrase) ==
    [s EXCEPT !.pc = "persist_user", !.flag_in = IF flagged THEN "flagged" ELSE "clean"]
ModeratedInput(s, flagged, phrase) ==
    IF flagged THEN ReplyOk([s EXCEPT !.flag_in = "flagged"], phrase)
    ELSE [s EXCEPT !.pc = "persist_user", !.flag_in = "clean"]

ModerateIn(p) ==
    /\ At(p, "moderate_in")
    /\ \E outcome \in {"error", "flagged", "clean"}, phrase \in random_moderation_response :
         st' = [st EXCEPT ![p] =
                  IF outcome = "error" THEN ReplyErr(@, "moderation")
                  ELSE ModeratedInput(@, outcome = "flagged", phrase)]
    /\ UNCHANGED <<conversation, history, mentions, lock, nick, events, found, log, cached, probe, conn>>

\* What Persist-user writes: add_message(conversation, db::Role::User, content).
UserMessage_Raw(s) == s.ev.content
UserMessage(s) == s.content

PersistUser(p) ==
    /\ At(p, "persist_user")
    /\ \E ok \in BOOLEAN :
         IF ~ok
         THEN /\ st' = [st EXCEPT ![p] = ReplyErr(@, "store")]
              /\ UNCHANGED <<history, log, cached>>
         ELSE /\ history' = InsertHistory(history, st[p].conversation, "User",
                                          UserMessage(st[p]), st[p].turn)
              /\ log' = Append(log, [conversation |-> st[p].conversation,
                                     role |-> "User", content |-> UserMessage(st[p])])
              /\ st' = [st EXCEPT ![p] = [@ EXCEPT !.pc = "invoke", !.content = NoText]]
    /\ UNCHANGED <<conversation, mentions, lock, nick, events, found, cached, probe, conn>>

\* impl TryFrom<&Message> for ChatCompletionRequestMessage
RequestMessage(m) ==
    [role |-> RoleToService(m.role), content |-> m.content]

\* messages.insert(messages.len() - 1, system_prompt)
InsertSystemPrompt(messages, system_prompt) ==
    LET at == Len(messages) - 1
    IN  SubSeq(messages, 1, at) \o <<system_prompt>> \o SubSeq(messages, at + 1, Len(messages))

\* history(conversation), the request, openai.chat().create(request).await?
Invoke(p) ==
    /\ At(p, "invoke")
    /\ \E outcome \in {"store_error", "service_error", "ok"} :
         LET h == history_of(history, st[p].conversation)
             msgs == [n \in 1..Len(h.messages) |-> RequestMessage(h.messages[n])]
             system_prompt == RequestMessage([role |-> "System",
                                              content |-> st[p].system_prompt])
         IN  st' = [st EXCEPT ![p] =
                      IF outcome = "store_error" \/ ~h.ok THEN ReplyErr(@, "store")
                      ELSE IF Len(msgs) = 0 THEN Panicked(@)
                      ELSE IF outcome = "service_error"
                      THEN ReplyErr([@ EXCEPT !.chat = 1,
                                              !.request = InsertSystemPrompt(msgs, system_prompt)],
                                    "service")
                      ELSE [@ EXCEPT !.pc = "choices", !.i = 1, !.chat = 1,
                                     !.system_prompt = NoText,
                                     !.request = InsertSystemPrompt(msgs, system_prompt)]]
    /\ UNCHANGED <<conversation, history, mentions, lock, nick, events, found, log, cached, probe, conn>>

\* One turn of `for choice in response.choices`: an assistant candidate
\* becomes the reply and is appended; any other is logged and skipped.  The
\* candidate i of the response is drawn when the loop reaches it (a response
\* holds up to `limit` of them), so i - 1 is the number of candidates taken.
ChoiceStep(p, limit, replies) ==
    /\ At(p, "choices")
    /\ st[p].i <= limit
    /\ \E ok \in BOOLEAN, choice \in Choice(replies) :
             IF choice.role # "assistant"
             THEN /\ st' = [st EXCEPT ![p] = [@ EXCEPT !.i = @ + 1]]
                  /\ UNCHANGED <<history, log, cached>>
             ELSE IF ~ok
             THEN /\ st' = [st EXCEPT ![p] =
                              ReplyErr([@ EXCEPT !.reply = [some |-> TRUE,
                                                            text |-> choice.content]],
                                       "store")]
                  /\ UNCHANGED <<history, log, cached>>
             ELSE /\ st' = [st EXCEPT ![p] =
                              [@ EXCEPT !.i = @ + 1,
                                        !.reply = [some |-> TRUE, text |-> choice.content]]]
                  /\ history' = InsertHistory(history, st[p].conversation, "Assistant",
                                              choice.content, st[p].turn)
                  /\ log' = Append(log, [conversation |-> st[p].conversation,
                                         role |-> "Assistant", content |-> choice.content])
    /\ UNCHANGED <<conversation, mentions, lock, nick, events, found, cached, probe, conn>>

\* if let Some(reply) = reply { .. } else { Err(eyre!("No reply found")) }
\* (the number of candidates stays on record when there is no reply)
AfterChoices_EmptyOk(s) == ReplyOk([s EXCEPT !.request = <<>>], s.reply.text)
AfterChoices(s) ==
    IF s.reply.some THEN [s EXCEPT !.pc = "moderate_out", !.request = <<>>]
    ELSE [ReplyErr(s, "No reply found") EXCEPT !.i = s.i]

\* The response has no candidate left.
ChoicesDone(p) ==
    /\ At(p, "choices")
    /\ st' = [st EXCEPT ![p] = AfterChoices(@)]
    /\ UNCHANGED <<conversation, history, mentions, lock, nick, events, found, log, cached, probe, conn>>

\* if self.must_moderate(&reply).await? { return Ok(random_moderation_response()) }
\* Ok(reply)
ModeratedOutput_Ignored(s, flagged, phrase) ==
    ReplyOk([s EXCEPT !.flag_out = IF flagged THEN "flagged" ELSE "clean"], s.reply.text)
ModeratedOutput(s, flagged, phrase) ==
    IF flagged THEN ReplyOk([s EXCEPT !.flag_out = "flagged"], phrase)
    ELSE ReplyOk([s EXCEPT !.flag_out = "clean"], s.reply.text)

\* The store after must_moderate(&reply): none of the returns that follow it
\* removes or rewrites a row.
HistoryAfterModeration_RolledBack(tbl, s) ==
    {r \in tbl : ~(r.turn = s.turn /\ r.role = RoleToU8("Assistant"))}
HistoryAfterModeration(tbl, s) == tbl

ModerateOut(p) ==
    /\ At(p, "moderate_out")
    /\ \E outcome \in {"error", "flagged", "clean"}, phrase \in random_moderation_response :
         st' = [st EXCEPT ![p] =
                  IF outcome = "error" THEN ReplyErr(@, "moderation")
                  ELSE ModeratedOutput(@, outcome = "flagged", phrase)]
    /\ history' = HistoryAfterModeration(history, st[p])
    /\ UNCHANGED <<conversation, mentions, lock, nick, events, found, log, cached, probe, conn>>

\* ------------------------------------------------------------- encode and send
\* encode_user_mentions(reply): under the mutex, with no await inside.
Encode(p) ==
    /\ At(p, "encode")
    /\ CanLock(lock)
    /\ \E order \in RightValueOrders(mentions) :
         st' = [st EXCEPT ![p] =
                  [Ended(@, "say", "encoded") EXCEPT
                      !.flag_in = st[p].flag_in, !.flag_out = st[p].flag_out,
                      !.chat = st[p].chat, !.result = st[p].result,
                      !.said.text = EncodeText(mentions, order, st[p].result.text)]]
    /\ UNCHANGED <<conversation, history, mentions, lock, nick, events, found, log, cached, probe, conn>>

\* msg.channel_id.say(&context, reply): sent, or the error is logged.
Say(p) ==
    /\ At(p, "say")
    /\ \E ok \in BOOLEAN :
         st' = [st EXCEPT ![p] = Ended(@, "done", IF ok THEN "sent" ELSE "send_error")]
    /\ UNCHANGED <<conversation, history, mentions, lock, nick, events, found, log, cached, probe, conn>>

\* ------------------------------------------------------------- the system
\* The steps of the pipeline of one event, whose response holds up to `limit`
\* candidates.
Step(p, limit, replies) ==
    \/ Identify(p)
    \/ DecodeLock(p)
    \/ DecodeToUser(p)
    \/ DecodeMember(p)
    \/ DecodeReturn(p)
    \/ PromptLock(p)
    \/ PromptScan(p)
    \/ PromptLookup(p)
    \/ PromptReplace(p)
    \/ ModerateIn(p)
    \/ PersistUser(p)
    \/ Invoke(p)
    \/ ChoiceStep(p, limit, replies)
    \/ ChoicesDone(p)
    \/ ModerateOut(p)
    \/ Encode(p)
    \/ Say(p)

\* Two instances, each handling one event, run at once; the events are on
\* BusyChannels with BusyContents.
Next ==
    \E p \in Procs :
        \/ st[p].pc = "idle" /\ MessageIgnored(p)
        \/ st[p].pc = "idle" /\ MessageStart(p, BusyChannels, BusyContents)
        \/ Step(p, MaxBusyChoices, BusyReplyContents)

Spec == Init /\ [][Next]_vars

\* One event at a time, with every channel and every text.
NextSolo ==
    \/ MessageIgnored("A")
    \/ MessageStart("A", ChannelNames, EventContents)
    \/ Step("A", MaxChoices, ReplyContents)

SpecSolo == Init /\ [][NextSolo]_vars

\* ------------------------------------------------------------- the mutex under scheduling
\* The steps an instance takes while it holds the MutexGuard: the awaits on
\* the gateway (to_user, guild.member, get_user) and the code between them,
\* up to the return or the `?` that drops the guard.
HolderStep(p) ==
    \/ DecodeToUser(p)
    \/ DecodeMember(p)
    \/ DecodeReturn(p)
    \/ PromptScan(p)
    \/ PromptLookup(p)
    \/ PromptReplace(p)

\* self.mentions.lock().await completes: in decode_user_mentions, in
\* decode_user_mentions_from_str and in encode_user_mentions.
Acquire(p) ==
    \/ DecodeLock(p)
    \/ PromptLock(p) /\ lock' = p
    \/ Encode(p)

\* The runtime polls a holder whose gateway await has returned, and the mutex
\* (serenity::prelude::Mutex, the tokio mutex) hands a released lock to the
\* waiters in the order they asked: a waiter is not passed over for ever.
\* Nothing makes a lookup fail, and nothing makes the steps outside the
\* mutex happen.
LockFairness ==
    \A p \in Procs : WF_vars(HolderStep(p)) /\ SF_vars(Acquire(p))

SpecLive == Init /\ [][Next]_vars /\ LockFairness

\* ------------------------------------------------------------- the Role conversions
\* enum Role of db.rs, and the values of a u8.
Roles == {"System", "User", "Assistant"}
U8 == 0..255

\* enum Role of schema/model.rs, and async_openai::types::Role.
ModelRoles == {"System", "User", "Assistant", "Function"}
ServiceRoles == {"system", "user", "assistant", "function"}

\* The values a conversion can start from.
Probes ==
    {[NoProbe EXCEPT !.kind = "role_u8", !.role0 = r, !.role = r] : r \in Roles}
    \cup {[NoProbe EXCEPT !.kind = "u8_role", !.u80 = v, !.u8 = v] : v \in U8}
    \cup {[NoProbe EXCEPT !.kind = "role_svc", !.role0 = r, !.role = r] : r \in ModelRoles}
    \cup {[NoProbe EXCEPT !.kind = "svc_role", !.svc0 = v, !.svc = v] : v \in ServiceRoles}
    \cup {[NoProbe EXCEPT !.kind = "dbrole_svc", !.role0 = r, !.role = r] : r \in Roles}

\* let role: u8 = role.into()
ApplyRoleToU8 ==
    /\ \/ probe.kind = "role_u8" /\ probe.step = 0
       \/ probe.kind = "u8_role" /\ probe.step = 1 /\ probe.ok
    /\ probe' = [probe EXCEPT !.u8 = RoleToU8(probe.role), !.step = @ + 1]
    /\ UNCHANGED <<conversation, history, mentions, lock, nick, events, st, found, log, cached, conn>>

\* Role::try_from(role)
ApplyRoleFromU8 ==
    /\ \/ probe.kind = "role_u8" /\ probe.step = 1
       \/ probe.kind = "u8_role" /\ probe.step = 0
    /\ probe' = [probe EXCEPT !.role = RoleFromU8(probe.u8).role,
                              !.ok = RoleFromU8(probe.u8).ok, !.step = @ + 1]
    /\ UNCHANGED <<conversation, history, mentions, lock, nick, events, st, found, log, cached, conn>>

\* schema/model.rs: role.into() towards the service vocabulary
ApplyModelRoleToService ==
    /\ \/ probe.kind = "role_svc" /\ probe.step = 0
       \/ probe.kind = "svc_role" /\ probe.step = 1
    /\ probe' = [probe EXCEPT !.svc = ModelRoleToService(probe.role), !.step = @ + 1]
    /\ UNCHANGED <<conversation, history, mentions, lock, nick, events, st, found, log, cached, conn>>

\* schema/model.rs: response.role.into()
ApplyModelRoleFromService ==
    /\ \/ probe.kind = "role_svc" /\ probe.step = 1
       \/ probe.kind = "svc_role" /\ probe.step = 0
    /\ probe' = [probe EXCEPT !.role = ModelRoleFromService(probe.svc), !.step = @ + 1]
    /\ UNCHANGED <<conversation, history, mentions, lock, nick, events, st, found, log, cached, conn>>

\* db.rs: message.role.into()
ApplyRoleToService ==
    /\ probe.kind = "dbrole_svc" /\ probe.step = 0
    /\ probe' = [probe EXCEPT !.svc = RoleToService(probe.role), !.step = @ + 1]
    /\ UNCHANGED <<conversation, history, mentions, lock, nick, events, st, found, log, cached, conn>>

\* schema/model.rs: impl TryFrom<ChatCompletionResponseMessage> for Message.
\* An absent content or function_call is "none".  The last arm of the match is
\* unreachable!(..), which panics.
MessageFromResponse(response) ==
    CASE response.content # "none" /\ response.function_call = "none" ->
             [outcome |-> "ok", kind |-> "Content",
              role |-> ModelRoleFromService(response.role), body |-> response.content]
      [] response.content = "none" /\ response.function_call # "none" ->
             [outcome |-> "ok", kind |-> "Function",
              role |-> ModelRoleFromService(response.role), body |-> response.function_call]
      [] OTHER -> [outcome |-> "panic", kind |-> "", role |-> "", body |-> ""]

\* The response messages the Completion Service can send: content and
\* function_call are each present or absent.
ResponseMessages ==
    [role : ServiceRoles, content : {"none", "text"}, function_call : {"none", "call"}]

\* A response message that is about to be converted.
ResponseProbes ==
    {[kind |-> "response", step |-> 0, response |-> r,
      result |-> [outcome |-> "none", kind |-> "", role |-> "", body |-> ""]] :
        r \in ResponseMessages}

\* chatbot.rs: let message: Message = choice.message.clone().try_into()?
ApplyMessageFromResponse ==
    /\ probe.kind = "response" /\ probe.step = 0
    /\ probe' = [probe EXCEPT !.step = 1, !.result = MessageFromResponse(probe.response)]
    /\ UNCHANGED <<conversation, history, mentions, lock, nick, events, st, found, log, cached, conn>>

\* A value is taken and carried through the conversions, one call per step.
InitRoles ==
    /\ conversation = {} /\ history = {} /\ mentions = {} /\ lock = "none"
    /\ nick \in {f \in [Users -> Nicks] : f[current_user_id] = "a"}
    /\ events = 0 /\ st = [p \in Procs |-> Fresh]
    /\ found = {} /\ log = <<>> /\ cached = {}
    /\ probe \in Probes \cup ResponseProbes
    /\ conn = NoConn

NextRoles ==
    \/ ApplyMessageFromResponse
    \/ ApplyRoleToU8
    \/ ApplyRoleFromU8
    \/ ApplyModelRoleToService
    \/ ApplyModelRoleFromService
    \/ ApplyRoleToService

SpecRoles == InitRoles /\ [][NextRoles]_vars

\* ------------------------------------------------------------- history() on a stored table
\* The role column is an integer column: a database file can hold any byte in
\* it.  These are the stored values tried, and the conversations read.
StoredRoles == {0, 1, 2, 3, 255}
StoredConversations == {1, 2}

\* What the file holds at one id: no row, or a row of some conversation with
\* some stored role.
StoredRowChoices ==
    {[some |-> FALSE, conversation |-> 0, role |-> 0]}
    \cup [some : {TRUE}, conversation : StoredConversations, role : StoredRoles]

\* The history tables of a database file: rows with distinct ids.
StoredTables ==
    {{[id |-> n, conversation |-> f[n].conversation, role |-> f[n].role,
       content |-> <<"h">>, turn |-> 0] : n \in {k \in 1..MaxStoredRows : f[k].some}} :
        f \in [1..MaxStoredRows -> StoredRowChoices]}

\* No read has been made yet.
HistoryProbe ==
    [kind |-> "history", step |-> 0, conversation |-> 0, ok |-> TRUE, messages |-> <<>>]

\* schema.history(conversation).await
ReadHistory ==
    /\ probe.kind = "history" /\ probe.step = 0
    /\ \E c \in StoredConversations :
         probe' = [probe EXCEPT !.step = 1, !.conversation = c,
                                !.ok = history_of(history, c).ok,
                                !.messages = history_of(history, c).messages]
    /\ UNCHANGED <<conversation, history, mentions, lock, nick, events, st, found, log, cached, conn>>

\* The store is opened on a file, and one conversation is read.
InitHistory ==
    /\ conversation = {} /\ mentions = {} /\ lock = "none"
    /\ nick \in {f \in [Users -> Nicks] : f[current_user_id] = "a"}
    /\ events = 0 /\ st = [p \in Procs |-> Fresh]
    /\ found = {} /\ log = <<>> /\ cached = {}
    /\ history \in StoredTables
    /\ probe = HistoryProbe
    /\ conn = NoConn

NextHistory == ReadHistory

SpecHistory == InitHistory /\ [][NextHistory]_vars

\* ------------------------------------------------------------- encode on a given table
\* Display names of which one is the beginning of the other, and the tokens
\* they can be cached for.
EncodeNames == { <<"@", "a">>, <<"@", "a", "l">> }
EncodeTokens == {"<@1>", "<@2>"}

\* The mention tables over them: no token and no name stands twice.
EncodeTables ==
    {m \in SUBSET [l : EncodeTokens, r : EncodeNames] :
        \A e1, e2 \in m : (e1.l = e2.l \/ e1.r = e2.r) => e1 = e2}

\* Replies to encode: the names as written, in another letter case, inside
\* other text.
EncodeTexts ==
    { <<"@", "a">>, <<"@", "a", "l">>, <<"@", "A">>, <<"@", "A", "l">>,
      <<"h", "@", "a", "l", "@", "a">>, <<"@", "a", "h">>, <<"a", "l">>,
      <<"@", "a", "l", "l">> }

\* No text has been encoded yet.
EncodeProbe == [kind |-> "encode", step |-> 0, text |-> NoText, out |-> NoText]

\* self.encode_user_mentions(reply).await
ApplyEncode ==
    /\ probe.kind = "encode" /\ probe.step = 0
    /\ \E order \in RightValueOrders(mentions) :
         probe' = [probe EXCEPT !.step = 1, !.out = EncodeText(mentions, order, probe.text)]
    /\ UNCHANGED <<conversation, history, mentions, lock, nick, events, st, found, log, cached, conn>>

\* A table and a reply are given, and the reply is encoded.
InitEncode ==
    /\ conversation = {} /\ history = {} /\ lock = "none"
    /\ nick \in {f \in [Users -> Nicks] : f[current_user_id] = "a"}
    /\ events = 0 /\ st = [p \in Procs |-> Fresh]
    /\ found = {} /\ log = <<>> /\ cached = {}
    /\ mentions \in EncodeTables
    /\ probe \in {[EncodeProbe EXCEPT !.text = t] : t \in EncodeTexts}
    /\ conn = NoConn

NextEncode == ApplyEncode

SpecEncode == InitEncode /\ [][NextEncode]_vars

\* ------------------------------------------------------------- schema.rs: personalities
PersonalityNames == {"x", "y"}
Prompts == {"p", "q"}

\* INSERT INTO personalities (name, prompt) VALUES (?1, ?2)
\* ON CONFLICT (name) DO UPDATE SET prompt = ?2
\* An insert sets the connection's last insert rowid; the update of the
\* conflict branch inserts no row and leaves it as it was.
UpsertPersonality(c, name, prompt) ==
    IF \E r \in c.personalities : r.name = name
    THEN [c EXCEPT !.personalities =
                      {IF r.name = name THEN [r EXCEPT !.prompt = prompt] ELSE r : r \in @}]
    ELSE [c EXCEPT !.personalities =
                      @ \cup {[id |-> NextRowId(c.personalities), name |-> name,
                                prompt |-> prompt]},
                   !.last_insert_rowid = NextRowId(c.personalities)]

\* Schema::define_personality: the upsert, conn.last_insert_rowid(), the
\* SELECT by name when that is 0, rowid > 0.
define_personality(c, name, prompt) ==
    LET after == UpsertPersonality(c, name, prompt)
        rowid == after.last_insert_rowid
        rows == {r.id : r \in {q \in after.personalities : q.name = name}}
        id == IF rowid = 0 THEN (IF rows = {} THEN 0 ELSE Min(rows)) ELSE rowid
    IN  [conn |-> after, ok |-> id > 0, id |-> id]

\* Schema::get_personality_prompt: SELECT prompt FROM personalities WHERE id = ?1
get_personality_prompt(c, id) ==
    LET rows == {r \in c.personalities : r.id = id}
    IN  IF rows = {} THEN [ok |-> FALSE, prompt |-> ""]
        ELSE [ok |-> TRUE, prompt |-> (CHOOSE r \in rows : TRUE).prompt]

\* schema.rs Schema::add_message:
\* INSERT INTO history (personality, role, content) VALUES (?1, ?2, ?3)
add_message(c, personality, role, content) ==
    [c EXCEPT !.history = @ \cup {[id |-> NextRowId(c.history), personality |-> personality,
                                   role |-> RoleToU8(role), content |-> content]},
              !.last_insert_rowid = NextRowId(c.history)]

\* No personality has been defined through this connection yet.
PersonalityProbe ==
    [kind |-> "personality", step |-> 0, name |-> "", prompt |-> "", ok |-> TRUE, id |-> 0]

\* schema.define_personality(name, prompt).await: the probe keeps the call
\* and the Personality it returned.
DefinePersonality ==
    /\ probe.kind = "personality" /\ probe.step < MaxCalls
    /\ \E name \in PersonalityNames, prompt \in Prompts :
         /\ conn' = define_personality(conn, name, prompt).conn
         /\ probe' = [probe EXCEPT !.step = @ + 1, !.name = name, !.prompt = prompt,
                                   !.ok = define_personality(conn, name, prompt).ok,
                                   !.id = define_personality(conn, name, prompt).id]
    /\ UNCHANGED <<conversation, history, mentions, lock, nick, events, st, found, log, cached>>

\* schema.add_message(personality, role, message).await, for a personality
\* of the table.
AddPersonalityMessage ==
    /\ probe.kind = "personality" /\ probe.step < MaxCalls
    /\ \E r \in conn.personalities :
         conn' = add_message(conn, r.id, "System", <<"m">>)
    /\ probe' = [probe EXCEPT !.step = @ + 1]
    /\ UNCHANGED <<conversation, history, mentions, lock, nick, events, st, found, log, cached>>

\* Schema::new: the connection is opened on an empty database, or on a file
\* that holds a personality defined in an earlier run.
InitPersonality ==
    /\ conversation = {} /\ history = {} /\ mentions = {} /\ lock = "none"
    /\ nick \in {f \in [Users -> Nicks] : f[current_user_id] = "a"}
    /\ events = 0 /\ st = [p \in Procs |-> Fresh]
    /\ found = {} /\ log = <<>> /\ cached = {}
    /\ probe = PersonalityProbe
    /\ conn \in {NoConn,
                 [NoConn EXCEPT !.personalities = {[id |-> 1, name |-> "x", prompt |-> "p"]}]}

NextPersonality ==
    \/ DefinePersonality
    \/ AddPersonalityMessage

SpecPersonality == InitPersonality /\ [][NextPersonality]_vars

\* ------------------------------------------------------------- properties
\* The ids of the conversations of the store.
ConversationIds == {r.id : r \in conversation}

\* What was appended to conversation c, in the order of the appends.
Appended(c) == SelectSeq(log, LAMBDA e : e.conversation = c)

\* Role and content of each message of a history.
Payloads(messages) ==
    [n \in 1..Len(messages) |-> [conversation |-> messages[n].conversation,
                                 role |-> messages[n].role,
                                 content |-> messages[n].content]]

\* The ids of a sequence of rows or messages.
Ids(rows) == [n \in 1..Len(rows) |-> rows[n].id]

\* The rows the turn `turn` wrote.
RowsOf(turn) == {r \in history : r.turn = turn}

\* C1: find_conversation called twice with the same name returns the same id,
\* whatever other finds and appends run before or between the two calls: no
\* two ids were ever returned for one name.
C1_SameNameSameId ==
    \A x, y \in found : x.name = y.name => x.id = y.id

\* Two events on the same channel are in hand, each has its conversation from
\* find_conversation, and a message was appended after the first find.
C1_Witness ==
    /\ history # {}
    /\ \E p, q \in Procs :
         /\ p # q
         /\ st[p].conversation > 0 /\ st[q].conversation > 0
         /\ st[p].ev.channel = st[q].ev.channel
         /\ st[p].conversation = st[q].conversation

\* C2: in every reachable state of the store find_conversation gives distinct
\* names distinct ids: the ids returned so far for different names differ, and
\* so do the ids that a find of n1 followed by a find of n2 would return now.
C2_DistinctNamesDistinctIds ==
    /\ \A x, y \in found : x.name # y.name => x.id # y.id
    /\ \A n1, n2 \in ChannelNames :
         n1 # n2 =>
           LET r1 == find_conversation(conversation, n1)
               r2 == find_conversation(r1.tbl, n2)
           IN  r1.ok /\ r2.ok /\ r1.id # r2.id

\* Both names have been found.
C2_Witness ==
    \E x, y \in found : x.name # y.name /\ x.id # y.id

\* C3: history(c) returns every message appended to c, with ids ascending, in
\* the order of the appends, although the query yields the rows by descending
\* id.
C3_HistoryInAppendOrder ==
    \A c \in ConversationIds :
        LET h == history_of(history, c)
        IN  /\ h.ok
            /\ Payloads(h.messages) = Appended(c)
            /\ \A a, b \in 1..Len(h.messages) :
                   a < b => h.messages[a].id < h.messages[b].id

\* A conversation holds three messages or more, which the query yields in
\* another order than history returns.
C3_Witness ==
    \E c \in ConversationIds :
        /\ Len(history_of(history, c).messages) >= 3
        /\ Ids(HistoryQuery(history, c)) # Ids(history_of(history, c).messages)

\* C4: every append adds one row whose id, given by the store, is greater than
\* every id already in that conversation, under any interleaving of the appends
\* of concurrent instances.
C4_AppendIdsIncrease ==
    [][ history' # history =>
          /\ history \subseteq history'
          /\ Cardinality(history' \ history) = 1
          /\ \A r \in history' \ history :
                 \A q \in history : q.conversation = r.conversation => q.id < r.id
      ]_vars

\* The appends of two turns to one conversation interleave.
C4_Witness ==
    \E a, b, c \in history :
        /\ a.conversation = b.conversation /\ b.conversation = c.conversation
        /\ a.id < b.id /\ b.id < c.id
        /\ a.turn = c.turn /\ a.turn # b.turn

\* C5: when input moderation flags the inbound text, reply() returns Ok with
\* a line of the stock-phrase catalog; for that event the chat endpoint is
\* never called and no message is appended to the store.
C5_FlaggedInputDeflects ==
    \A p \in Procs :
        st[p].flag_in = "flagged" =>
            /\ st[p].pc \in {"encode", "say"}
            /\ st[p].result.kind = "ok"
            /\ st[p].result.text \in random_moderation_response
            /\ st[p].chat = 0
            /\ RowsOf(st[p].turn) = {}

\* The input of an event was flagged and its reply is about to be sent, while
\* the store holds the messages of an earlier event.
C5_Witness ==
    \E p \in Procs :
        /\ st[p].flag_in = "flagged"
        /\ st[p].pc = "say"
        /\ history # {}

\* The text decode_user_mentions gives for t when every lookup succeeds: each
\* token replaced by "@" and the nick of its user.
RECURSIVE Decoded(_)
Decoded(t) ==
    IF t = <<>> THEN <<>>
    ELSE (IF IsMention(Head(t)) THEN Nickname(nick[UserIdOf(Head(t))])
          ELSE <<Head(t)>>) \o Decoded(Tail(t))

\* reply() has returned Ok for the event of p, neither moderation check
\* flagged, the response held one candidate, an assistant text, and the
\* conversation held no message of another event.
CleanSingleTurn(p) ==
    /\ st[p].pc = "encode"
    /\ st[p].flag_in = "clean" /\ st[p].flag_out = "clean"
    /\ st[p].i = 2 /\ st[p].reply.some
    /\ \A r \in history : r.conversation = st[p].conversation => r.turn = st[p].turn

\* C6: after a turn on an empty conversation in which no moderation check
\* flags and the response holds one assistant candidate t, the conversation
\* holds exactly two messages, the user message with the mention-decoded input
\* and then the assistant message t, and reply() returns t: the system prompt
\* is not persisted.
C6_CleanTurnOnEmptyConversation ==
    \A p \in Procs :
        CleanSingleTurn(p) =>
            LET c == st[p].conversation
                t == st[p].reply.text
            IN  /\ history_of(history, c).ok
                /\ Payloads(history_of(history, c).messages) =
                     << [conversation |-> c, role |-> "User",
                         content |-> Decoded(st[p].ev.content)],
                        [conversation |-> c, role |-> "Assistant", content |-> t] >>
                /\ st[p].result = [kind |-> "ok", text |-> t]

\* Such a turn, whose input holds a mention the decode rewrote.
C6_Witness ==
    \E p \in Procs :
        /\ CleanSingleTurn(p)
        /\ Decoded(st[p].ev.content) # st[p].ev.content
        /\ Cardinality(conversation) = 2

\* C7: when the response holds no candidate, reply() fails with the error
\* "No reply found" instead of returning a text, and the store then holds the
\* user message of that turn and no assistant message of it.
C7_NoCandidateNoReply ==
    [][ \A p \in Procs :
          ( /\ st[p].pc = "choices" /\ st[p].i = 1
            /\ st'[p].pc # "choices" /\ st'[p].i = 1 ) =>
              /\ st'[p].pc = "failed"
              /\ st'[p].result = [kind |-> "err", text |-> <<"No reply found">>]
              /\ \E r \in history' :
                     /\ {q \in history' : q.turn = st[p].turn} = {r}
                     /\ r.role = RoleToU8("User")
                     /\ r.conversation = st[p].conversation
      ]_vars

\* reply() has failed on a response without candidates.
C7_Witness ==
    \E p \in Procs :
        /\ st[p].pc = "failed"
        /\ st[p].i = 1
        /\ st[p].result.text = <<"No reply found">>
        /\ Cardinality(RowsOf(st[p].turn)) = 1

\* C8: for two instances running at once on one conversation, the history
\* never holds the user message of one turn between the user message and an
\* assistant message of the other turn.
C8_TurnsDoNotInterleave ==
    \A c \in ConversationIds :
        LET msgs == history_of(history, c).messages
        IN  \A x, y, z \in 1..Len(msgs) :
                ( /\ x < y /\ y < z
                  /\ msgs[x].turn = msgs[z].turn
                  /\ msgs[x].role = "User" /\ msgs[z].role = "Assistant" ) =>
                    ~(msgs[y].role = "User" /\ msgs[y].turn # msgs[x].turn)

\* Two turns on one conversation have both appended their user message.
C8_Interleaved ==
    \E a, b \in history :
        /\ a.conversation = b.conversation /\ a.turn # b.turn
        /\ a.role = RoleToU8("User") /\ b.role = RoleToU8("User")
        /\ \E p, q \in Procs : p # q /\ ~Terminal(p) /\ ~Terminal(q)

\* The token whose display name the instance p is looking up at the gateway,
\* or "" when p is not at a lookup.
Resolving(p) ==
    IF st[p].pc = "decode_member" THEN Mention(st[p].ev.mentions[st[p].i])
    ELSE IF st[p].pc = "prompt_lookup"
    THEN Mention(UserIdOf(Captures(st[p].system_prompt)[st[p].i]))
    ELSE ""

\* The instances inside a decode, between taking the mutex and dropping it.
Decoding ==
    {p \in Procs : st[p].pc \in {"decode_loop", "decode_member",
                                 "prompt_loop", "prompt_lookup"}}

\* C9: when two instances decode texts with the same token, the one that
\* comes second reuses the entry the first one inserted: no instance looks up
\* the display name of a token that the decode of another event has inserted.
C9_SecondDecoderReuses ==
    \A p \in Procs :
        \A e \in cached : e.mention = Resolving(p) => e.turn = st[p].turn

\* The test for an entry and the insert run under the mutex: one instance at
\* most is inside a decode, it holds the mutex, and the token it looks up has
\* no entry.
C9_DecodeExcludes ==
    /\ Cardinality(Decoding) <= 1
    /\ \A p \in Decoding : lock = p
    /\ \A p \in Procs : Resolving(p) # "" => ~contains_left(mentions, Resolving(p))

\* A token is looked up a second time only when two users share a display
\* name.
C9_ReusesUnlessNameShared ==
    C9_SecondDecoderReuses \/ \E u, v \in Users : u # v /\ nick[u] = nick[v]

\* One instance looks up a token under the mutex while the other waits for the
\* mutex to decode a text with the same token.
C9_Waiting ==
    \E p, q \in Procs :
        /\ st[p].pc = "decode_member" /\ lock = p
        /\ st[q].pc = "decode"
        /\ Resolving(p) \in {Mention(u) : u \in {st[q].ev.mentions[n] :
                                                  n \in 1..Len(st[q].ev.mentions)}}

\* The tokens of `orig` are back in `enc`, each at its place: enc is orig,
\* except where a display name of the table m that stood in orig as literal
\* text has become its token.
RECURSIVE TokensRestored(_, _, _)
TokensRestored(m, orig, enc) ==
    IF orig = <<>> THEN enc = <<>>
    ELSE IF enc = <<>> THEN FALSE
    ELSE IF IsMention(Head(orig)) \/ Head(enc) = Head(orig)
    THEN Head(enc) = Head(orig) /\ TokensRestored(m, Tail(orig), Tail(enc))
    ELSE /\ contains_left(m, Head(enc))
         /\ MatchAt(orig, get_by_left(m, Head(enc)))
         /\ TokensRestored(m, SubSeq(orig, Len(get_by_left(m, Head(enc))) + 1, Len(orig)),
                           Tail(enc))

\* C10: encode(decode(text)) restores every token of the text that the decode
\* resolved, also when two tokens have the same display name and when the text
\* holds a cached display name as literal text.  Checked where a decode has
\* rewritten its text and still holds the mutex: decode_user_mentions on the
\* text of the event, decode_user_mentions_from_str on the system prompt.
C10_RoundTripRestoresTokens ==
    \A p \in Procs : \A order \in RightValueOrders(mentions) :
        /\ (st[p].pc = "decode_loop" /\ st[p].i > Len(st[p].ev.mentions)) =>
              TokensRestored(mentions, st[p].ev.content,
                             EncodeText(mentions, order, st[p].content))
        /\ (st[p].pc = "prompt_loop" /\ st[p].i > Len(Captures(st[p].system_prompt))) =>
              TokensRestored(mentions, st[p].system_prompt,
                             EncodeText(mentions, order,
                                        ReplaceAllMentions(mentions, st[p].system_prompt)))

\* A display name of the table m stands somewhere in the text t.
NameIn(m, t) ==
    \E k \in 1..Len(t) : \E name \in Rights(m) : MatchAt(SubSeq(t, k, Len(t)), name)

TokenAt(p) ==
    IF st[p].pc \in {"decode_loop", "decode_member"} /\ st[p].i <= Len(st[p].ev.mentions)
    THEN Mention(st[p].ev.mentions[st[p].i])
    ELSE IF st[p].pc \in {"prompt_loop", "prompt_lookup"}
            /\ st[p].i <= Len(Captures(st[p].system_prompt))
    THEN Mention(UserIdOf(Captures(st[p].system_prompt)[st[p].i]))
    ELSE ""

\* decode_user_mentions_from_str calls the gateway for a token only when the
\* token has no entry and did not stand earlier in the text, and passes over a
\* token that has an entry.
C12_FromStrChecksFirst ==
    [][ \A p \in Procs :
          /\ (st[p].pc = "prompt_loop" /\ TokenAt(p) # "" /\ st'[p] # st[p]
              /\ contains_left(mentions, TokenAt(p))) =>
                 st'[p] = [st[p] EXCEPT !.i = @ + 1]
          /\ (st[p].pc = "prompt_loop" /\ st'[p].pc = "prompt_lookup") =>
                 /\ ~contains_left(mentions, TokenAt(p))
                 /\ \A j \in 1..(st[p].i - 1) :
                        Mention(UserIdOf(Captures(st[p].system_prompt)[j])) # TokenAt(p)
      ]_vars

\* C12: within one decode call the gateway is asked at most once for each
\* token, and not at all for a token that has an entry in the mention table:
\* the step of the loop on such a token only rewrites it from the entry, in
\* decode_user_mentions as in decode_user_mentions_from_str.
C12_ResolverOnlyForNewTokens ==
    [][ \A p \in Procs :
          /\ (st[p].pc = "decode_loop" /\ TokenAt(p) # "" /\ st'[p] # st[p]
              /\ contains_left(mentions, TokenAt(p))) =>
                 st'[p] = [st[p] EXCEPT
                             !.content = Replace(@, TokenAt(p),
                                                 get_by_left(mentions, TokenAt(p))),
                             !.i = @ + 1]
          /\ (st[p].pc = "decode_loop" /\ st'[p].pc = "decode_member") =>
                 ~contains_left(mentions, TokenAt(p))
          /\ (st[p].pc = "prompt_loop" /\ TokenAt(p) # "" /\ st'[p] # st[p]
              /\ contains_left(mentions, TokenAt(p))) =>
                 st'[p] = [st[p] EXCEPT !.i = @ + 1]
          /\ (st[p].pc = "prompt_loop" /\ st'[p].pc = "prompt_lookup") =>
                 /\ ~contains_left(mentions, TokenAt(p))
                 /\ \A j \in 1..(st[p].i - 1) :
                        Mention(UserIdOf(Captures(st[p].system_prompt)[j])) # TokenAt(p)
      ]_vars

\* The prompt of a private channel holds the author's token twice; the loop
\* stands at the second one, which the first one has cached.
C12_RepeatedTokenSkipped ==
    \E p \in Procs :
        /\ st[p].pc = "prompt_loop" /\ st[p].i = 3
        /\ Len(Captures(st[p].system_prompt)) = 3
        /\ contains_left(mentions, TokenAt(p))

\* C13: when the gateway lookup of a token fails, the decode does not fail as
\* a whole: it goes on with the next token, the token whose lookup failed stays
\* in the text as it was, and a token whose lookup succeeded is rewritten.
C13_DecodeSurvivesResolverFailure ==
    [][ \A p \in Procs :
          /\ (st[p].pc = "decode_member" /\ st'[p] # st[p]) =>
                /\ st'[p].pc = "decode_loop" /\ st'[p].i = st[p].i + 1
                /\ st'[p].content \in
                     {st[p].content,
                      Replace(st[p].content, TokenAt(p),
                              Nickname(nick[st[p].ev.mentions[st[p].i]]))}
          /\ (st[p].pc = "prompt_lookup" /\ st'[p] # st[p]) =>
                /\ st'[p].pc = "prompt_loop" /\ st'[p].i = st[p].i + 1
                /\ st'[p].system_prompt = st[p].system_prompt
      ]_vars

\* A symbol in lower case, and a text in lower case.
LowerSymbol(c) == IF c = "A" THEN "a" ELSE c
Lower(t) == [n \in 1..Len(t) |-> LowerSymbol(t[n])]

\* The mention table pairs tokens and names one to one when names are
\* compared as they are written.
C14_BijectionAsWritten ==
    \A e1, e2 \in mentions : (e1.l = e2.l \/ e1.r = e2.r) => e1 = e2

\* C14: in every state of the mention table a token has at most one display
\* name, and a display name, compared without regard to letter case, has at
\* most one token: two entries whose names differ only in case never coexist.
C14_OneNameOneToken ==
    \A e1, e2 \in mentions :
        /\ e1.l = e2.l => e1.r = e2.r
        /\ Lower(e1.r) = Lower(e2.r) => e1.l = e2.l

\* C15: the persisted role encoding round-trips.  Decoding the persisted form
\* of a Role r gives r, with System = 0, User = 1, Assistant = 2; a persisted
\* value v is valid exactly when it is 0, 1 or 2, and encoding the Role decoded
\* from a valid v gives v.
C15_RoleU8RoundTrip ==
    /\ (probe.kind = "role_u8" /\ probe.step >= 1) =>
          probe.u8 = (CASE probe.role0 = "System" -> 0 [] probe.role0 = "User" -> 1
                        [] probe.role0 = "Assistant" -> 2)
    /\ (probe.kind = "role_u8" /\ probe.step = 2) =>
          probe.ok /\ probe.role = probe.role0
    /\ (probe.kind = "u8_role" /\ probe.step >= 1) =>
          (probe.ok <=> probe.u80 \in {0, 1, 2})
    /\ (probe.kind = "u8_role" /\ probe.step = 2) =>
          probe.u8 = probe.u80

\* A Role, or a valid persisted value, has gone through both conversions.
C15_Witness ==
    \/ probe.kind = "role_u8" /\ probe.step = 2 /\ probe.role0 = "Assistant"
    \/ probe.kind = "u8_role" /\ probe.step = 2 /\ probe.u80 = 2

C16_DbRoleToService ==
    (probe.kind = "dbrole_svc" /\ probe.step = 1) =>
        probe.svc = (CASE probe.role0 = "System" -> "system"
                       [] probe.role0 = "User" -> "user"
                       [] probe.role0 = "Assistant" -> "assistant")

\* The persisted history of the conversation of p as request messages.
HistoryRequest(p) ==
    LET h == history_of(history, st[p].conversation).messages
    IN  [n \in 1..Len(h) |-> RequestMessage(h[n])]

\* The rendered system prompt of p as a request message.
PromptRequest(p) == RequestMessage([role |-> "System", content |-> st[p].system_prompt])

\* C17: in the request sent to the Completion Service the rendered system
\* prompt is the first message, and the full persisted history of the
\* conversation follows it in ascending order, the user message of the current
\* turn being the last message.
C17_SystemPromptFirst ==
    [][ \A p \in Procs :
          (st[p].pc = "invoke" /\ st'[p].pc = "choices") =>
              st'[p].request = <<PromptRequest(p)>> \o HistoryRequest(p)
      ]_vars

\* What the code builds: the prompt stands before the last message of the
\* history, the user message of the current turn.
C17_PromptBeforeLastMessage ==
    [][ \A p \in Procs :
          (st[p].pc = "invoke" /\ st'[p].pc = "choices") =>
              LET h == HistoryRequest(p)
              IN  st'[p].request = SubSeq(h, 1, Len(h) - 1) \o <<PromptRequest(p)>>
                                   \o <<h[Len(h)]>>
      ]_vars

\* A request has been made on a conversation with earlier messages, and its
\* first message is not the system prompt.
C17_PromptNotFirst ==
    \E p \in Procs :
        /\ st[p].pc = "choices"
        /\ Len(st[p].request) >= 4
        /\ st[p].request[1].role # "system"

\* The assistant rows the turn `turn` wrote: one for each assistant candidate
\* the loop over the response has met, in the order of the candidates.
AssistantRows(turn) == {r \in RowsOf(turn) : r.role = RoleToU8("Assistant")}

\* C18: the candidate used for the reply is the first entry of the response
\* whose role is assistant (the code of the binary knows no function
\* invocation); entries of another role before it are skipped, and the entries
\* after it are ignored.
C18_FirstAssistantCandidate ==
    \A p \in Procs :
        st[p].pc = "moderate_out" =>
            /\ AssistantRows(st[p].turn) # {}
            /\ \A r \in AssistantRows(st[p].turn) :
                   (\A q \in AssistantRows(st[p].turn) : r.id <= q.id) =>
                       st[p].reply.text = r.content

\* What the code does: the reply is the last assistant entry of the response.
C18_LastAssistantCandidate ==
    \A p \in Procs :
        st[p].pc = "moderate_out" =>
            /\ AssistantRows(st[p].turn) # {}
            /\ \A r \in AssistantRows(st[p].turn) :
                   (\A q \in AssistantRows(st[p].turn) : r.id >= q.id) =>
                       st[p].reply.text = r.content

\* A response of two entries, one an assistant text and one of another role:
\* the entry of the other role was passed over.
C18_SkippedThenTaken ==
    \E p \in Procs :
        /\ st[p].pc = "moderate_out" /\ st[p].i = 3
        /\ Cardinality(AssistantRows(st[p].turn)) = 1

\* C19: a turn that reaches Persist-assistant appends exactly one message for
\* the candidate, tagged assistant, whatever the number of candidates of the
\* response and whatever their roles: when the loop over the response is done
\* and there is a reply, the turn has written its user message and one
\* assistant message, and nothing else.
C19_OneAssistantMessage ==
    \A p \in Procs :
        st[p].pc = "moderate_out" =>
            /\ Cardinality(AssistantRows(st[p].turn)) = 1
            /\ Cardinality(RowsOf(st[p].turn) \ AssistantRows(st[p].turn)) = 1
            /\ \A r \in RowsOf(st[p].turn) \ AssistantRows(st[p].turn) :
                   r.role = RoleToU8("User")

\* A turn has written two assistant messages.
C19_TwoAssistantMessages ==
    \E p \in Procs :
        /\ st[p].pc = "moderate_out"
        /\ Cardinality(AssistantRows(st[p].turn)) = 2

LastMessage(c) ==
    LET h == history_of(history, c).messages IN h[Len(h)]
LastRow == CHOOSE r \in history : \A q \in history : q.id <= r.id

\* C21: when output moderation flags the candidate, the assistant message
\* appended for it stays in the store: the deflection removes and rewrites no
\* row, no later step of the event does, and the history of the conversation
\* still ends with that assistant message.
C21_DeflectKeepsAssistantMessage ==
    [][ /\ history \subseteq history'
        /\ \A p \in Procs :
             (st[p].pc = "moderate_out" /\ st'[p].flag_out = "flagged") =>
                 /\ history' = history
                 /\ history_of(history, st[p].conversation).messages # <<>>
                 /\ LastMessage(st[p].conversation) =
                      [id |-> LastRow.id, conversation |-> st[p].conversation,
                       role |-> "Assistant", content |-> st[p].reply.text,
                       turn |-> st[p].turn]
        /\ \A p \in Procs :
             (st[p].flag_out = "flagged" /\ st'[p].turn = st[p].turn) =>
                 history' = history
      ]_vars

\* The reply of a deflected turn is about to be sent; the turn had followed an
\* earlier one, and the last row of the store is its assistant message.
C21_Witness ==
    \E p \in Procs :
        /\ st[p].pc = "say" /\ st[p].flag_out = "flagged"
        /\ st[p].turn = 2
        /\ Cardinality(history) >= 3
        /\ LastRow.turn = st[p].turn /\ LastRow.role = RoleToU8("Assistant")

\* With two turns at once on one conversation the deflection still removes
\* nothing, and the assistant message is the last one the turn wrote.
C21_DeflectRemovesNothing ==
    [][ /\ history \subseteq history'
        /\ \A p \in Procs :
             (st[p].pc = "moderate_out" /\ st'[p].flag_out = "flagged") =>
                 /\ history' = history
                 /\ \E r \in AssistantRows(st[p].turn) :
                        /\ r.content = st[p].reply.text
                        /\ \A q \in RowsOf(st[p].turn) : q.id <= r.id
      ]_vars

\* The user rows the turn `turn` wrote.
UserRows(turn) == {r \in RowsOf(turn) : r.role = RoleToU8("User")}

C24_InvalidRoleFailsRead ==
    (probe.kind = "history" /\ probe.step = 1) =>
        LET rows == {r \in history : r.conversation = probe.conversation}
            invalid == {r \in rows : r.role \notin {0, 1, 2}}
        IN  /\ invalid # {} => (~probe.ok /\ probe.messages = <<>>)
            /\ invalid = {} =>
                  /\ probe.ok
                  /\ Len(probe.messages) = Cardinality(rows)
                  /\ \A r \in rows : \E n \in 1..Len(probe.messages) :
                         /\ probe.messages[n].id = r.id
                         /\ RoleToU8(probe.messages[n].role) = r.role

\* A conversation with two valid rows and one invalid row has been read, and
\* the read failed.
C24_Witness ==
    /\ probe.kind = "history" /\ probe.step = 1 /\ ~probe.ok
    /\ Cardinality({r \in history : r.conversation = probe.conversation
                                    /\ r.role \in {0, 1, 2}}) = 2
    /\ Cardinality({r \in history : r.conversation = probe.conversation
                                    /\ r.role = 3}) = 1

\* The event of p was deflected: one of the two moderation calls flagged.
Deflected(p) == st[p].flag_in = "flagged" \/ st[p].flag_out = "flagged"

\* C25: a deflection yields a successful, non-empty text that is one line of
\* the stock-phrase catalog, and that line is relayed as it is: no mention
\* encoding and no other rewriting is applied to it.
C25_DeflectRelayedAsIs ==
    \A p \in Procs :
        (Deflected(p) /\ st[p].pc = "say") =>
            /\ st[p].result.kind = "ok"
            /\ st[p].result.text \in random_moderation_response
            /\ st[p].result.text # <<>>
            /\ st[p].said.text = st[p].result.text

\* What the code does: reply() returns a line of the catalog, and message()
\* encodes it with the mention table like any other reply.
C25_DeflectReturnsCatalogLine ==
    /\ \A p \in Procs :
          (Deflected(p) /\ st[p].pc \in {"encode", "say"}) =>
              /\ st[p].result.kind = "ok"
              /\ st[p].result.text \in random_moderation_response
              /\ st[p].result.text # <<>>
    /\ \A p \in Procs :
          (Deflected(p) /\ st[p].pc = "say") =>
              \E order \in RightValueOrders(mentions) :
                  st[p].said.text = EncodeText(mentions, order, st[p].result.text)

\* A deflected event whose relayed text is not the line reply() returned.
C25_PhraseRewritten ==
    \E p \in Procs :
        /\ Deflected(p) /\ st[p].pc = "say"
        /\ st[p].said.text # st[p].result.text
        /\ IsMention(st[p].said.text[2])

\* C26: entries of the mention table are never evicted: once a token is
\* cached with a display name, every later table maps that token to that
\* name, whatever is decoded afterwards, a token with the same display name
\* included.
C26_NeverEvicted ==
    [][ \A e \in mentions : e \in mentions' ]_vars

\* What the code keeps: an entry stays as long as no two users have the same
\* display name.
C26_KeptUnlessNameShared ==
    [][ (\A u, v \in Users : u # v => nick[u] # nick[v]) =>
            \A e \in mentions : e \in mentions' ]_vars

\* A token that a decode had cached has no entry any more.
C26_Evicted ==
    \E e \in cached : ~contains_left(mentions, e.mention)

\* The display name `name` stands at the head of t, letter case set aside.
MatchNoCase(t, name) ==
    Len(name) <= Len(t) /\ Lower(SubSeq(t, 1, Len(name))) = Lower(name)

\* The text t with every cached display name replaced by its token, the
\* longest name first and letter case set aside.
RECURSIVE LongestFirstNoCase(_, _)
LongestFirstNoCase(m, t) ==
    IF t = <<>> THEN <<>>
    ELSE LET hits == {r \in Rights(m) : MatchNoCase(t, r)}
         IN  IF hits = {} THEN <<Head(t)>> \o LongestFirstNoCase(m, Tail(t))
             ELSE LET name == CHOOSE r \in hits : \A q \in hits : Len(q) <= Len(r)
                  IN  <<get_by_right(m, name)>>
                      \o LongestFirstNoCase(m, SubSeq(t, Len(name) + 1, Len(t)))

\* C27: encode matches the cached display names longest first and without
\* regard to letter case: where one cached name begins another, an occurrence
\* of the longer one becomes the token of the longer one in every iteration
\* order of the table, and an occurrence in another letter case becomes the
\* token of the name.
C27_LongestFirstNoCase ==
    (probe.kind = "encode" /\ probe.step = 1) =>
        probe.out = LongestFirstNoCase(mentions, probe.text)

\* What the code does: every cached name becomes its token when no cached
\* name begins another and the text is written in the letter case of the names.
C27_ExactNamesEncoded ==
    (probe.kind = "encode" /\ probe.step = 1
     /\ Cardinality(mentions) <= 1 /\ Lower(probe.text) = probe.text) =>
        probe.out = LongestFirstNoCase(mentions, probe.text)

\* Both names are cached and the longer one stood in the text: the token of
\* the shorter one and the rest of the longer name have come out.
C27_ShorterNameTaken ==
    /\ probe.kind = "encode" /\ probe.step = 1
    /\ Cardinality(mentions) = 2
    /\ probe.text = <<"@", "a", "l">>
    /\ probe.out = <<get_by_right(mentions, <<"@", "a">>), "l">>

\* A cached name stood in the text in another letter case and was left as it
\* was.
C27_OtherCaseLeft ==
    /\ probe.kind = "encode" /\ probe.step = 1
    /\ mentions # {}
    /\ probe.text = <<"@", "A">>
    /\ probe.out = probe.text

\* C28: the conversion of a response message of the Completion Service into
\* a Message is total: for every combination of content present or absent and
\* function call present or absent it yields a Message or an error value, and
\* never a crash.
C28_ResponseConversionTotal ==
    (probe.kind = "response" /\ probe.step = 1) =>
        probe.result.outcome \in {"ok", "err"}

\* What the code gives: a text message when only the content is present, a
\* function invocation when only the function call is, with the role of the
\* response.
C28_OnePresentConverts ==
    (probe.kind = "response" /\ probe.step = 1
     /\ (probe.response.content = "none") # (probe.response.function_call = "none")) =>
        /\ probe.result.outcome = "ok"
        /\ probe.result.role = ModelRoleFromService(probe.response.role)
        /\ probe.result.kind =
             (IF probe.response.content # "none" THEN "Content" ELSE "Function")

\* An assistant response with content and function call both present, or
\* both absent, has been converted: the conversion panicked.
C28_Panicked ==
    /\ probe.kind = "response" /\ probe.step = 1
    /\ probe.response.role = "assistant"
    /\ (probe.response.content = "none") = (probe.response.function_call = "none")
    /\ probe.result.outcome = "panic"

\* C29: after define_personality(name, prompt) has returned the id p,
\* get_personality_prompt(p) returns prompt and p is the id of the row named
\* `name`, whatever define_personality and add_message calls came before, a
\* re-definition of an existing name included.
C29_DefinedPromptIsRead ==
    (probe.kind = "personality" /\ probe.name # "") =>
        /\ probe.ok
        /\ get_personality_prompt(conn, probe.id) = [ok |-> TRUE, prompt |-> probe.prompt]
        /\ \E r \in conn.personalities : r.id = probe.id /\ r.name = probe.name

\* What the code gives: the prompt of the name is always the one defined
\* last, and the id returned is the id of the name when the call inserted the
\* row or when the connection had inserted nothing before.
C29_RightIdAfterInsert ==
    [][ (probe.kind = "personality" /\ probe'.name # "" /\ probe' # probe
         /\ conn'.personalities # conn.personalities) =>
            /\ \E r \in conn'.personalities :
                   r.name = probe'.name /\ r.prompt = probe'.prompt
            /\ ((\A r \in conn.personalities : r.name # probe'.name)
                \/ conn.last_insert_rowid = 0) =>
                   \E r \in conn'.personalities :
                       r.id = probe'.id /\ r.name = probe'.name
      ]_vars

\* A name was defined again after another insert on the connection: the id
\* returned is the id of that other insert, not the id of the name.
C29_WrongId ==
    /\ probe.kind = "personality" /\ probe.ok
    /\ \E r \in conn.personalities : r.name = probe.name /\ r.id # probe.id
    /\ probe.id = conn.last_insert_rowid

\* C30: in Handler::reply the history read after the append of the user
\* message is never empty, whatever other turns and other conversations do in
\* between, so the index messages.len() - 1 of the system prompt is never
\* below zero.
C30_HistoryNeverEmpty ==
    \A p \in Procs :
        st[p].pc = "invoke" =>
            /\ history_of(history, st[p].conversation).ok
            /\ Len(history_of(history, st[p].conversation).messages) - 1 >= 0
            /\ UserRows(st[p].turn) # {}

\* Two turns on different conversations are both between their append and
\* their read, each conversation holding one message.
C30_Witness ==
    \E p, q \in Procs :
        /\ st[p].pc = "invoke" /\ st[q].pc = "invoke"
        /\ st[p].conversation # st[q].conversation
        /\ Len(history_of(history, st[p].conversation).messages) = 1
        /\ Len(history_of(history, st[q].conversation).messages) = 1

\* The instance is at a request for the mutex.
C31_Requesting(p) == st[p].pc \in {"decode", "prompt", "encode"}

\* No instance asks for the mutex while it holds it, and the guard is gone at
\* every exit: the holder is inside a decode, so an instance at a request, an
\* instance that failed and an instance past its decode hold nothing.
C31_HeldOnlyInside ==
    /\ \A p \in Procs : lock = p => p \in Decoding /\ ~C31_Requesting(p)
    /\ \A p \in Procs : st[p].pc = "failed" => lock # p
    /\ lock \in Procs \cup {"none"}

\* The request of p has been served: p holds the mutex inside the decode it
\* asked for, or it has encoded its reply under the mutex, or the gateway
\* lookups that come before the request in current_system_prompt failed.
C31_Served(p, at) ==
    IF at = "decode" THEN st[p].pc = "decode_loop" /\ lock = p
    ELSE IF at = "prompt" THEN \/ st[p].pc = "prompt_loop" /\ lock = p
                               \/ st[p].pc = "failed"
    ELSE st[p].pc = "say"

\* C31: the mention-table mutex is deadlock-free.  No instance requests it
\* while it holds it (decode, the system-prompt decode and encode take it one
\* after the other), every holder releases it on every exit, a failed
\* gateway lookup included, and every instance that waits for it gets it in
\* the end, given that the gateway lookups of the holder return.
C31_LockIsDeadlockFree ==
    /\ []C31_HeldOnlyInside
    /\ \A p \in Procs :
          \A at \in {"decode", "prompt", "encode"} :
              (st[p].pc = at) ~> C31_Served(p, at)

\* One instance is inside a gateway lookup of the system-prompt decode, with
\* the mutex, while the other one waits for the mutex at its own decode.
C31_Witness ==
    \E p, q \in Procs :
        /\ p # q
        /\ st[p].pc = "prompt_lookup" /\ lock = p
        /\ st[q].pc = "decode"
        /\ ~ENABLED Acquire(q)


====
